---------------------------- MODULE Spec2Model ----------------------------
(***************************************************************************)
(* A model of the twitch-chat-overlay relay (src/index.js):                *)
(*   - the yargs .check callback that validates the startup parameters     *)
(*     and the two font names,                                             *)
(*   - the tmi.js 'message' handler that normalises a chat notification    *)
(*     and broadcasts it with io.emit,                                     *)
(*   - the socket.io 'connection' handler that pushes the settings,        *)
(*   - the GET /fonts/:font handler that resolves a font file.             *)
(*                                                                         *)
(* Strings on which the code works character by character (font names,    *)
(* file names, emote ids, emote position tokens) are sequences of          *)
(* one-character strings; strings that are only passed through (user       *)
(* name, colour, message text) are TLA+ strings.                           *)
(***************************************************************************)
EXTENDS Integers, Sequences, FiniteSets, TLC

(***************************************************************************)
(* Bounds of the model.                                                    *)
(***************************************************************************)
MaxConns == 2      \* socket.io connections opened in one run
MaxMsgs == 2       \* chat notifications in one run of the relay
MaxFiles == 2      \* entries of the fonts directory

(***************************************************************************)
(* JavaScript values.  Every value is a record with the same two fields,   *)
(* so that any two of them can be compared.                                *)
(***************************************************************************)
Undefined == [t |-> "undefined", v |-> 0]
JsNaN == [t |-> "NaN", v |-> 0]
Num(n) == [t |-> "number", v |-> n]

(***************************************************************************)
(* Characters and strings as sequences of characters.                      *)
(***************************************************************************)
Digits == <<"0", "1", "2", "3", "4", "5", "6", "7", "8", "9">>

IsDigit(c) == \E i \in 1..10 : Digits[i] = c

DigitVal(c) == (CHOOSE i \in 1..10 : Digits[i] = c) - 1

UpperCase == <<"A", "B", "C", "E", "F", "I", "L", "M", "N", "O", "R", "S", "T", "W", "X", "Y">>
LowerCase == <<"a", "b", "c", "e", "f", "i", "l", "m", "n", "o", "r", "s", "t", "w", "x", "y">>

LowerOf ==
  [c \in {UpperCase[i] : i \in 1..Len(UpperCase)} |->
     LowerCase[CHOOSE i \in 1..Len(UpperCase) : UpperCase[i] = c]]

\* String.prototype.toLowerCase, one character
LowerChar(c) == IF c \in DOMAIN LowerOf THEN LowerOf[c] ELSE c

\* String.prototype.toLowerCase
ToLowerCase(s) == [i \in 1..Len(s) |-> LowerChar(s[i])]

AllDigits(s) == \A i \in 1..Len(s) : IsDigit(s[i])

RECURSIVE DecimalValue(_)
DecimalValue(s) ==
  IF s = <<>> THEN 0
  ELSE 10 * DecimalValue(SubSeq(s, 1, Len(s) - 1)) + DigitVal(s[Len(s)])

\* A conversion that reads the leading digits, as parseInt does: NaN when
\* there is none, the empty string included
NumberParseInt(s) ==
  LET n == CHOOSE k \in 0..Len(s) :
             /\ \A i \in 1..k : IsDigit(s[i])
             /\ (k < Len(s) => ~IsDigit(s[k + 1]))
  IN IF n = 0 THEN JsNaN ELSE Num(DecimalValue(SubSeq(s, 1, n)))

\* Number(str) on the characters the model uses: the empty string is 0, a
\* digit string is its value, anything else is NaN
Number(s) ==
  IF s = <<>> THEN Num(0)
  ELSE IF AllDigits(s) THEN Num(DecimalValue(s))
  ELSE JsNaN

\* String.prototype.split(sep) for a one-character separator
RECURSIVE Split(_, _)
Split(s, sep) ==
  IF \E i \in 1..Len(s) : s[i] = sep
  THEN LET i == CHOOSE j \in 1..Len(s) :
                  s[j] = sep /\ \A k \in 1..(j - 1) : s[k] # sep
       IN <<SubSeq(s, 1, i - 1)>> \o Split(SubSeq(s, i + 1, Len(s)), sep)
  ELSE <<s>>

\* array[i] of a JavaScript array (0-based), undefined past its end
At(arr, i) == IF i + 1 <= Len(arr) THEN arr[i + 1] ELSE Undefined


Str(x) == [t |-> "string", v |-> x]
JsNull == [t |-> "null", v |-> 0]
Obj(x) == [t |-> "object", v |-> x]

\* ToBoolean: undefined, null, NaN, 0 and "" are falsy; objects are truthy
Truthy(x) ==
  CASE x.t = "string" -> x.v # ""
    [] x.t = "number" -> x.v # 0
    [] x.t = "object" -> TRUE
    [] OTHER -> FALSE

\* a || b
OrElse(a, b) == IF Truthy(a) THEN a ELSE b

(***************************************************************************)
(* State.                                                                  *)
(***************************************************************************)
VARIABLES
  pc,              \* "check": the yargs check has not run; "listening"; "exit";
                   \* "crashed": an exception left a handler uncaught
  argv,            \* the parsed command line; the check overwrites its fonts
  fontValid,       \* validateFont(argv.font, 'Font')
  namefontValid,   \* validateFont(argv.namefont, 'Namefont')
  viewportHeight,  \* the session constants, set once after the check
  messageSeconds,
  messageFont,
  namefont,
  fontsDirExists,  \* the directory fonts/ beside the executable exists
  dirEntries,      \* the entries of fonts/
  siblingFiles,    \* the files beside fonts/, in its parent directory
  request,         \* req.params.font of the GET /fonts/:font in flight
  response,        \* the response to it, status 0 while there is none
  sockets,         \* the socket.io connections that are open
  opened,          \* the number of connections accepted so far
  joined,          \* joined[c]: how many events were published before c opened
  wire,            \* wire[c]: events emitted to c and not yet received
  recv,            \* recv[c]: events the client of c has received, in order
  upstream,        \* the notifications tmi.js has raised so far
  published        \* the data of every io.emit('chatMessage', data) so far

configVars == <<pc, argv, fontValid, namefontValid, viewportHeight,
                messageSeconds, messageFont, namefont>>
fsVars == <<fontsDirExists, dirEntries, siblingFiles>>
assetVars == <<request, response>>
relayVars == <<sockets, opened, joined, wire, recv, upstream, published>>
vars == <<configVars, fsVars, assetVars, relayVars>>

Conns == 1..MaxConns

(***************************************************************************)
(* The 'message' handler: emote spans.                                     *)
(*                                                                         *)
(* tags.emotes is an object built by tmi.js: here the sequence of its      *)
(* properties [id, positions] in the order they were inserted, with no id  *)
(* twice.                                                                  *)
(***************************************************************************)

\* An integer-index property key: the canonical decimal form of an integer
\* below 2^32 - 1.  for-in visits these first, in ascending numeric order.
IsArrayIndex(key) ==
  /\ key # <<>>
  /\ AllDigits(key)
  /\ (Len(key) > 1 => key[1] # "0")
  /\ Len(key) <= 9

RECURSIVE InsertAscending(_, _)
InsertAscending(sorted, p) ==
  IF sorted = <<>> THEN <<p>>
  ELSE IF DecimalValue(p.id) < DecimalValue(Head(sorted).id)
       THEN <<p>> \o sorted
       ELSE <<Head(sorted)>> \o InsertAscending(Tail(sorted), p)

RECURSIVE IndexProperties(_)
IndexProperties(props) ==
  IF props = <<>> THEN <<>>
  ELSE LET rest == IndexProperties(SubSeq(props, 1, Len(props) - 1))
           p == props[Len(props)]
       IN IF IsArrayIndex(p.id) THEN InsertAscending(rest, p) ELSE rest

NamedProperties(props) == SelectSeq(props, LAMBDA p : ~IsArrayIndex(p.id))

\* A loop that visits the properties in the order they were inserted
InsertionOrder(props) == props

\* for (const emoteId in tags.emotes): the order in which for-in visits the
\* properties of an ordinary object
ForIn(props) == IndexProperties(props) \o NamedProperties(props)

\* const [start, end] = position.split('-').map(Number);
\* emotes.push({ id: emoteId, start, end })
Span(emoteId, position) ==
  LET fields == Split(position, "-")
      nums == [i \in 1..Len(fields) |-> Number(fields[i])]
  IN [id |-> emoteId, start |-> At(nums, 0), end |-> At(nums, 1)]

\* A loop body that looks only at the first position of an id
SpansOfFirst(p) ==
  IF p.positions = <<>> THEN <<>> ELSE <<Span(p.id, p.positions[1])>>

\* tags.emotes[emoteId].forEach(position => ...)
SpansOf(p) == [i \in 1..Len(p.positions) |-> Span(p.id, p.positions[i])]

RECURSIVE Flatten(_)
Flatten(seqs) ==
  IF seqs = <<>> THEN <<>> ELSE Head(seqs) \o Flatten(Tail(seqs))

\* tags.emotes[emoteId] is null: tmi.js stores null for an emote id that
\* reached it without positions ("25" instead of "25:0-4")
IsNullValued(p) == "isNull" \in DOMAIN p

\* tags.emotes[emoteId].forEach(...) throws a TypeError when the value is null
Throws(tags) ==
  /\ Truthy(tags["emotes"])
  /\ \E i \in 1..Len(tags["emotes"].v) : IsNullValued(tags["emotes"].v[i])

\* the emotes array the handler builds
EmoteSpans(tags) ==
  IF Truthy(tags["emotes"])
  THEN LET props == ForIn(tags["emotes"].v)
       IN Flatten([i \in 1..Len(props) |-> SpansOf(props[i])])
  ELSE <<>>

\* A handler that takes the user name without its fallback
ChatEventNoFallback(tags, message) ==
  [username |-> tags["display-name"],
   message |-> Str(message),
   color |-> tags["color"],
   emotes |-> EmoteSpans(tags)]

\* the object handed to io.emit('chatMessage', ...)
ChatEvent(tags, message) ==
  [username |-> OrElse(tags["display-name"], Str("Anonymous")),
   message |-> Str(message),
   color |-> OrElse(tags["color"], Str("#ffffff")),
   emotes |-> EmoteSpans(tags)]


(***************************************************************************)
(* The broadcast channel.  An event on the wire is [event, data].          *)
(***************************************************************************)
Packet(event, data) == [event |-> event, data |-> data]

\* socket.emit(event, data): to this one socket
SocketEmit(w, socket, event, data) ==
  [w EXCEPT ![socket] = Append(@, Packet(event, data))]

\* io.emit(event, data): to every socket that is open now
IoEmit(w, event, data) ==
  [c \in Conns |->
     IF c \in sockets THEN Append(w[c], Packet(event, data)) ELSE w[c]]

\* A handler that drops a notification equal to the one before it
OnMessageDedup(chan, tags, message, self) ==
  IF upstream # <<>> /\ upstream[Len(upstream)].tags = tags
                     /\ upstream[Len(upstream)].message = message
  THEN UNCHANGED <<wire, published>>
  ELSE /\ wire' = IoEmit(wire, "chatMessage", ChatEvent(tags, message))
       /\ published' = Append(published, ChatEvent(tags, message))

\* A handler that answers one socket instead of broadcasting
OnMessageToOne(chan, tags, message, self) ==
  /\ wire' = IF sockets = {} THEN wire
             ELSE SocketEmit(wire, CHOOSE c \in sockets : TRUE,
                             "chatMessage", ChatEvent(tags, message))
  /\ published' = Append(published, ChatEvent(tags, message))

\* A handler whose event overtakes the events still on the wire
OnMessageInFront(chan, tags, message, self) ==
  /\ wire' = [c \in Conns |->
                IF c \in sockets
                THEN <<Packet("chatMessage", ChatEvent(tags, message))>>
                       \o wire[c]
                ELSE wire[c]]
  /\ published' = Append(published, ChatEvent(tags, message))

\* A handler that starts with `if (self) return;`
OnMessageSkipEcho(chan, tags, message, self) ==
  IF self
  THEN UNCHANGED <<wire, published>>
  ELSE /\ wire' = IoEmit(wire, "chatMessage", ChatEvent(tags, message))
       /\ published' = Append(published, ChatEvent(tags, message))

\* client.on('message', (chan, tags, message, self) => { ... })
OnMessage(chan, tags, message, self) ==
  /\ wire' = IoEmit(wire, "chatMessage", ChatEvent(tags, message))
  /\ published' = Append(published, ChatEvent(tags, message))

\* the settings object of the 'connection' handler
Settings ==
  [viewportHeight |-> viewportHeight,
   messageSeconds |-> messageSeconds,
   messageFont |-> messageFont,
   namefont |-> namefont]

\* A handler that pushes the settings to the new socket and, again, to the
\* socket that connected before it
OnConnectionAndPrevious(w, socket) ==
  [c \in Conns |->
     IF c = socket \/ (c = socket - 1 /\ c \in sockets)
     THEN Append(w[c], Packet("settings", Settings)) ELSE w[c]]

\* A handler that pushes the settings with io.emit: to the new socket and to
\* every socket that was already open
OnConnectionBroadcast(w, socket) ==
  [c \in Conns |->
     IF c \in sockets \cup {socket}
     THEN Append(w[c], Packet("settings", Settings)) ELSE w[c]]

\* A handler that, after the settings, sends the new socket every event
\* published so far
OnConnectionReplay(w, socket) ==
  [w EXCEPT ![socket] =
     <<Packet("settings", Settings)>>
       \o [i \in 1..Len(published) |-> Packet("chatMessage", published[i])]]

\* io.on('connection', (socket) => { socket.emit('settings', {...}) })
OnConnection(w, socket) == SocketEmit(w, socket, "settings", Settings)

(***************************************************************************)
(* Paths (path.posix) and the fonts directory.                             *)
(***************************************************************************)
Slash == "/"
Dot == "."

RECURSIVE StripTrailingSlashes(_)
StripTrailingSlashes(p) ==
  IF p # <<>> /\ p[Len(p)] = Slash
  THEN StripTrailingSlashes(SubSeq(p, 1, Len(p) - 1))
  ELSE p

\* the index of the last occurrence of c in p, 0 when there is none
LastIndexOf(p, c) ==
  IF \E i \in 1..Len(p) : p[i] = c
  THEN CHOOSE i \in 1..Len(p) :
         p[i] = c /\ \A j \in (i + 1)..Len(p) : p[j] # c
  ELSE 0

\* the last segment of a path, trailing slashes dropped
LastSegment(p) ==
  LET q == StripTrailingSlashes(p)
  IN SubSeq(q, LastIndexOf(q, Slash) + 1, Len(q))

EndsWith(s, suffix) ==
  /\ Len(suffix) <= Len(s)
  /\ SubSeq(s, Len(s) - Len(suffix) + 1, Len(s)) = suffix

\* path.extname(p): from the last dot of the last segment, empty when there
\* is no dot, when the segment starts with its only dot, or for ".."
Extname(p) ==
  LET seg == LastSegment(p)
      d == LastIndexOf(seg, Dot)
  IN IF d = 0 \/ d = 1 THEN <<>>
     ELSE IF seg = <<Dot, Dot>> THEN <<>>
     ELSE SubSeq(seg, d, Len(seg))

\* path.basename(p, ext): the last segment, without ext when it ends with
\* ext (compared character by character, case-sensitively) and is more than
\* ext
Basename(p, ext) ==
  LET seg == LastSegment(p)
  IN IF ext # <<>> /\ Len(ext) <= Len(p)
     THEN IF ext = p THEN <<>>
          ELSE IF EndsWith(seg, ext) /\ seg # ext
               THEN SubSeq(seg, 1, Len(seg) - Len(ext))
               ELSE seg
     ELSE seg

\* the directory fonts/ beside the executable, as a path segment
Fonts == <<"f", "o", "n", "t", "s">>

\* path.normalize, segment by segment, from the directory `stack`
RECURSIVE Walk(_, _)
Walk(stack, segs) ==
  IF segs = <<>> THEN stack
  ELSE LET seg == Head(segs)
       IN IF seg = <<>> \/ seg = <<Dot>> THEN Walk(stack, Tail(segs))
          ELSE IF seg = <<Dot, Dot>>
               THEN IF stack # <<>> /\ stack[Len(stack)] # <<Dot, Dot>>
                    THEN Walk(SubSeq(stack, 1, Len(stack) - 1), Tail(segs))
                    ELSE Walk(Append(stack, seg), Tail(segs))
               ELSE Walk(Append(stack, seg), Tail(segs))

\* path.join(fontsDir, name): the segments below the executable's directory
JoinFontsDir(name) == Walk(<<Fonts>>, Split(name, Slash))

\* fs.existsSync(path), on a case-sensitive file system
ExistsSync(path) ==
  CASE path = <<>> -> TRUE
    [] path = <<Fonts>> -> fontsDirExists
    [] Len(path) = 1 /\ path # <<Fonts>> -> path[1] \in siblingFiles
    [] Len(path) = 2 /\ path[1] = Fonts ->
         fontsDirExists /\ path[2] \in dirEntries
    [] OTHER -> FALSE

\* fs.existsSync(fontsDir) ? fs.readdirSync(fontsDir) : []
ReadFontsDir == IF fontsDirExists THEN dirEntries ELSE {}

ttf == <<".", "t", "t", "f">>
otf == <<".", "o", "t", "f">>
woff == <<".", "w", "o", "f", "f">>
woff2 == <<".", "w", "o", "f", "f", "2">>

\* const extensions = ['.ttf', '.otf', '.woff', '.woff2']
extensions == <<ttf, otf, woff, woff2>>

IsExtension(ext) == \E i \in 1..Len(extensions) : extensions[i] = ext

Arial == <<"A", "r", "i", "a", "l">>

(***************************************************************************)
(* The yargs check: the ranges, validateFont, the fallback to Arial.       *)
(***************************************************************************)
IsWordChar(c) ==
  \/ IsDigit(c)
  \/ c = "_"
  \/ \E i \in 1..Len(UpperCase) : UpperCase[i] = c \/ LowerCase[i] = c

\* /^[a-zA-Z0-9_]{3,25}$/.test(username)
IsChannelName(username) ==
  /\ Len(username) >= 3
  /\ Len(username) <= 25
  /\ \A i \in 1..Len(username) : IsWordChar(username[i])

\* /\.(ttf|otf|woff|woff2)$/i.test(f)
HasFontExtension(f) ==
  \E i \in 1..Len(extensions) : EndsWith(ToLowerCase(f), extensions[i])

\* A validation that knows only the exact spelling 'Arial'
validateFontExact(font) ==
  \/ font = Arial
  \/ /\ fontsDirExists
     /\ \E f \in {g \in dirEntries : HasFontExtension(g)} :
          ToLowerCase(Basename(f, Extname(f))) = ToLowerCase(font)

\* const validateFont = (font, type) => { ... }
validateFont(font) ==
  IF ToLowerCase(font) = ToLowerCase(Arial) THEN TRUE
  ELSE IF ~fontsDirExists THEN FALSE
  ELSE LET fontFiles == {f \in dirEntries : HasFontExtension(f)}
           fontNames == {Basename(f, Extname(f)) : f \in fontFiles}
       IN \E name \in fontNames : ToLowerCase(name) = ToLowerCase(font)

\* the errors the check collects
errors(a) ==
  {e \in {"port", "username", "height", "seconds"} :
     \/ e = "port" /\ (a.port < 1 \/ a.port > 65535)
     \/ e = "username" /\ (a.username = <<>> \/ ~IsChannelName(a.username))
     \/ e = "height" /\ (a.height < 100 \/ a.height > 2160)
     \/ e = "seconds" /\ a.seconds <= 0}

\* A check that reports a font it does not find as an error, as it reports
\* a port out of range, instead of falling back to Arial
StartupAbortOnFont ==
  /\ pc = "check"
  /\ fontValid' = validateFont(argv.font)
  /\ namefontValid' = validateFont(argv.namefont)
  /\ argv' = argv
  /\ IF errors(argv) # {} \/ ~fontValid' \/ ~namefontValid'
     THEN /\ pc' = "exit"
          /\ UNCHANGED <<viewportHeight, messageSeconds, messageFont, namefont>>
     ELSE /\ pc' = "listening"
          /\ viewportHeight' = argv.height
          /\ messageSeconds' = argv.seconds
          /\ messageFont' = argv.font
          /\ namefont' = argv.namefont
  /\ UNCHANGED <<fsVars, assetVars, relayVars>>

\* .check((argv) => { ... }) and, when it passes, the session constants
Startup ==
  /\ pc = "check"
  /\ fontValid' = validateFont(argv.font)
  /\ namefontValid' = validateFont(argv.namefont)
  /\ argv' = [argv EXCEPT
                !.font = IF fontValid' THEN @ ELSE Arial,
                !.namefont = IF namefontValid' THEN @ ELSE Arial]
  /\ IF errors(argv) # {}
     THEN /\ pc' = "exit"
          /\ UNCHANGED <<viewportHeight, messageSeconds, messageFont, namefont>>
     ELSE /\ pc' = "listening"
          /\ viewportHeight' = argv.height
          /\ messageSeconds' = argv.seconds
          /\ messageFont' = argv'.font
          /\ namefont' = argv'.namefont
  /\ UNCHANGED <<fsVars, assetVars, relayVars>>

(***************************************************************************)
(* GET /fonts/:font                                                        *)
(***************************************************************************)
NoPath == <<>>

\* A handler that resolves the name as it was requested
KeepExtension(name) == name

\* const ext = path.extname(fontName).toLowerCase();
\* if ([...].includes(ext)) fontName = path.basename(fontName, ext);
StripExtension(name) ==
  LET ext == ToLowerCase(Extname(name))
  IN IF IsExtension(ext) THEN Basename(name, ext) ELSE name

\* A loop that looks only for the exact file name
RECURSIVE ResolveExact(_, _)
ResolveExact(fontName, i) ==
  IF i > Len(extensions) THEN {NoPath}
  ELSE LET candidate == JoinFontsDir(fontName \o extensions[i])
       IN IF ExistsSync(candidate) THEN {candidate}
          ELSE ResolveExact(fontName, i + 1)

\* for (const e of extensions) { ... }, from extensions[i] on: the values
\* fontPath can end with.  files.find returns the first match in the order
\* readdirSync lists the directory, which the file system decides: any match.
RECURSIVE Resolve(_, _)
Resolve(fontName, i) ==
  IF i > Len(extensions) THEN {NoPath}
  ELSE LET e == extensions[i]
           candidate == JoinFontsDir(fontName \o e)
           match == {f \in ReadFontsDir :
                       ToLowerCase(f) = ToLowerCase(fontName \o e)}
       IN IF ExistsSync(candidate) THEN {candidate}
          ELSE IF match # {} THEN {<<Fonts, f>> : f \in match}
          ELSE Resolve(fontName, i + 1)

\* mimeMap[path.extname(fontPath).toLowerCase()] || 'application/octet-stream'
Mime(fontPath) ==
  LET ext == ToLowerCase(Extname(fontPath[Len(fontPath)]))
  IN CASE ext = ttf -> "font/ttf"
       [] ext = otf -> "font/otf"
       [] ext = woff -> "font/woff"
       [] ext = woff2 -> "font/woff2"
       [] OTHER -> "application/octet-stream"

\* the response for a resolved fontPath
Respond(fontPath) ==
  IF fontPath # NoPath
  THEN [status |-> 200, file |-> fontPath, type |-> Mime(fontPath)]
  ELSE [status |-> 404, file |-> NoPath, type |-> ""]

\* the font paths the handler can end with for req.params.font = name
FontPaths(name) == Resolve(StripExtension(name), 1)

\* A handler that keeps the name it resolved in the session constant
\* messageFont instead of a local variable
GetFontKeepsName ==
  /\ pc = "listening"
  /\ request # <<>>
  /\ response.status = 0
  /\ \E fontPath \in FontPaths(request) : response' = Respond(fontPath)
  /\ messageFont' = StripExtension(request)
  /\ UNCHANGED <<pc, argv, fontValid, namefontValid, viewportHeight,
                 messageSeconds, namefont, fsVars, request, relayVars>>

\* app.get('/fonts/:font', (req, res) => { ... })
GetFont ==
  /\ pc = "listening"
  /\ request # <<>>
  /\ response.status = 0
  /\ \E fontPath \in FontPaths(request) : response' = Respond(fontPath)
  /\ UNCHANGED <<configVars, fsVars, request, relayVars>>

(***************************************************************************)
(* Connections and chat notifications.                                     *)
(***************************************************************************)
\* a client connects: socket.io registers the socket and runs the
\* 'connection' handler in the same turn of the event loop
Connect ==
  /\ pc = "listening"
  /\ opened < MaxConns
  /\ opened' = opened + 1
  /\ sockets' = sockets \cup {opened + 1}
  /\ joined' = [joined EXCEPT ![opened + 1] = Len(published)]
  /\ wire' = OnConnection(wire, opened + 1)
  /\ UNCHANGED <<configVars, fsVars, assetVars, recv, upstream, published>>

\* a connection closes; what was still on its wire is lost
Disconnect(c) ==
  /\ c \in sockets
  /\ sockets' = sockets \ {c}
  /\ wire' = [wire EXCEPT ![c] = <<>>]
  /\ UNCHANGED <<configVars, fsVars, assetVars, opened, joined, recv,
                 upstream, published>>

\* the transport hands the client of c the next event, in the order sent
Deliver(c) ==
  /\ c \in sockets
  /\ wire[c] # <<>>
  /\ recv' = [recv EXCEPT ![c] = Append(@, Head(wire[c]))]
  /\ wire' = [wire EXCEPT ![c] = Tail(@)]
  /\ UNCHANGED <<configVars, fsVars, assetVars, sockets, opened, joined,
                 upstream, published>>

\* The TypeError leaves the handler; neither tmi.js, which calls the
\* listeners from its WebSocket callback, nor the program catches it, and
\* there is no 'uncaughtException' listener: node ends the process, and with
\* it every connection and everything still on a wire.
UncaughtException ==
  /\ pc' = "crashed"
  /\ sockets' = {}
  /\ wire' = [c \in Conns |-> <<>>]
  /\ UNCHANGED published

\* tmi.js raises 'message' with the notification n; the handler runs
Message(n) ==
  /\ pc = "listening"
  /\ upstream' = Append(upstream, n)
  /\ IF Throws(n.tags)
     THEN UncaughtException
     ELSE /\ OnMessage(n.chan, n.tags, n.message, n.self)
          /\ UNCHANGED <<pc, sockets>>
  /\ UNCHANGED <<argv, fontValid, namefontValid, viewportHeight,
                 messageSeconds, messageFont, namefont, fsVars, assetVars,
                 opened, joined, recv>>

(***************************************************************************)
(* Inputs.                                                                 *)
(***************************************************************************)
Tags(displayName, color, emotes) ==
  ("display-name" :> displayName) @@ ("color" :> color) @@ ("emotes" :> emotes)

Notification(chan, tags, message, self) ==
  [chan |-> chan, tags |-> tags, message |-> message, self |-> self]

Emote(id, positions) == [id |-> id, positions |-> positions]

\* the property of an emote id whose value is null
NullEmote(id) == [id |-> id, positions |-> <<>>, isNull |-> TRUE]

EmoteIds == {<<"2", "5">>, <<"1", "9", "0", "2">>, <<"e", "1">>}

PositionLists ==
  {<<<<"0", "-", "4">>>>,
   <<<<"0", "-", "4">>, <<"1", "0", "-", "1", "4">>>>}

\* position lists with a token that is not "<digits>-<digits>": a field with
\* a letter, an empty field, no hyphen, a third field
MalformedLists ==
  {<<<<"a", "-", "4">>>>,
   <<<<"0", "-", "x">>>>,
   <<<<"-", "4">>>>,
   <<<<"7", "-">>>>,
   <<<<"0", "4">>>>,
   <<<<"0", "-", "4">>, <<>>>>,
   <<<<"1", "-", "2", "-", "3">>>>}

\* the emote objects: no, one or two ids, in every insertion order
EmoteObjects ==
  {<<>>}
  \cup {<<Emote(i, p)>> : i \in EmoteIds, p \in PositionLists}
  \cup {<<Emote(<<"2", "5">>, p)>> : p \in MalformedLists}
  \cup {<<Emote(ij[1], p), Emote(ij[2], <<<<"6", "-", "8">>>>)>> :
          ij \in {x \in EmoteIds \X EmoteIds : x[1] # x[2]},
          p \in PositionLists}

EmotesValues == {Undefined, JsNull} \cup {Obj(o) : o \in EmoteObjects}

\* the notifications the normaliser is checked on
Notifications ==
  {Notification("#bob", Tags(d, c, e), m, self) :
     d \in {Undefined, JsNull, Str(""), Str("Bob")},
     c \in {Undefined, JsNull, Str(""), Str("#ff0000")},
     e \in EmotesValues,
     m \in {"LUL hi", ""},
     self \in BOOLEAN}

\* the notifications of the relay's runs
ChatFeed ==
  {Notification("#bob",
                Tags(Str("Bob"), Str("#ff0000"),
                     Obj(<<Emote(<<"1">>, <<<<"0", "-", "2">>>>)>>)),
                "LUL hi", FALSE),
   Notification("#bob", Tags(Undefined, JsNull, JsNull), "hello", FALSE)}

\* a feed with a notification whose emotes tag was "25" with no positions
FaultFeed ==
  {Notification("#bob", Tags(Str("Bob"), Str("#ff0000"), JsNull),
                "hello", FALSE),
   Notification("#bob",
                Tags(Str("Eve"), JsNull, Obj(<<NullEmote(<<"2", "5">>)>>)),
                "Kappa", FALSE)}

\* a feed of notifications that differ in the channel and in the echo flag
EchoFeed ==
  {Notification(chan, Tags(Str("Bob"), Str("#ff0000"), JsNull), "hello", self) :
     chan \in {"#bob", "#alice"}, self \in BOOLEAN}
  \cup {Notification("#bob", Tags(Str("Bob"), JsNull, JsNull), "hello", FALSE)}

MyFont == <<"M", "y", "F", "o", "n", "t">>
MYFONT == <<"M", "Y", "F", "O", "N", "T">>
ComicSans == <<"C", "o", "m", "i", "c", "-", "S", "a", "n", "s">>
Secret == <<"s", "e", "c", "r", "e", "t">>
UpTo == <<".", ".", "/">>
TTF == <<".", "T", "T", "F">>
txt == <<".", "t", "x", "t">>

\* the files a fonts directory is filled from
FileUniverse ==
  {MyFont \o ttf, ToLowerCase(MyFont) \o ttf, ToLowerCase(MyFont) \o otf,
   MyFont \o woff, ToLowerCase(MyFont) \o woff2, MyFont \o TTF,
   ToLowerCase(ComicSans) \o woff2, ToLowerCase(Arial) \o otf,
   MyFont \o txt, MyFont \o ttf \o ttf}

\* the names a client asks GET /fonts/:font for
RequestNames ==
  {b \o x : b \in {MyFont, ToLowerCase(MyFont), MYFONT, ComicSans, Arial,
                   ToLowerCase(Arial), UpTo \o Secret, MyFont \o ttf},
            x \in {<<>>, ttf, otf, woff2, TTF, txt}}

\* the --font and --namefont values
FontOptions == {Arial, ToLowerCase(Arial), MyFont, ComicSans, MyFont \o ttf}
NamefontOptions == {ToLowerCase(MyFont)}

Bob == <<"b", "o", "b">>

Argv(font, nfont) ==
  [port |-> 3005, username |-> Bob, height |-> 1080, seconds |-> 30,
   font |-> font, namefont |-> nfont]

\* command lines with a parameter out of range, and one in range
CommandLines(font, nfont) ==
  {Argv(font, nfont),
   [Argv(font, nfont) EXCEPT !.port = 0],
   [Argv(font, nfont) EXCEPT !.port = 65536],
   [Argv(font, nfont) EXCEPT !.username = <<"b", "o">>],
   [Argv(font, nfont) EXCEPT !.height = 99],
   [Argv(font, nfont) EXCEPT !.seconds = 0]}

(***************************************************************************)
(* Initial states and specifications.                                      *)
(***************************************************************************)
InitRest ==
  /\ pc = "check"
  /\ fontValid = FALSE
  /\ namefontValid = FALSE
  /\ viewportHeight = 0
  /\ messageSeconds = 0
  /\ messageFont = <<>>
  /\ namefont = <<>>
  /\ siblingFiles = {Secret \o ttf}
  /\ response = [status |-> 0, file |-> NoPath, type |-> ""]
  /\ sockets = {}
  /\ opened = 0
  /\ joined = [c \in Conns |-> 0]
  /\ wire = [c \in Conns |-> <<>>]
  /\ recv = [c \in Conns |-> <<>>]
  /\ upstream = <<>>
  /\ published = <<>>

\* the relay: started with the default fonts or with a font of fonts/
Init ==
  /\ argv \in {Argv(Arial, Arial), Argv(MyFont, ComicSans)}
  /\ fontsDirExists = TRUE
  /\ dirEntries = {MyFont \o ttf}
  /\ request = <<>>
  /\ InitRest

Next ==
  \/ Startup
  \/ Connect
  \/ \E c \in Conns : Disconnect(c)
  \/ \E c \in Conns : Deliver(c)
  \/ \E n \in ChatFeed : Len(upstream) < MaxMsgs /\ Message(n)

Spec == Init /\ [][Next]_vars

\* the relay on a feed that holds a notification the handler throws on
FaultNext ==
  \/ Startup
  \/ Connect
  \/ \E c \in Conns : Deliver(c)
  \/ \E n \in FaultFeed : Len(upstream) < MaxMsgs /\ Message(n)

FaultSpec == Init /\ [][FaultNext]_vars

\* the whole server: connections, notifications and a font request
SessionInit ==
  /\ argv \in {Argv(Arial, Arial), Argv(MyFont, ComicSans)}
  /\ fontsDirExists = TRUE
  /\ dirEntries = {MyFont \o ttf}
  /\ request = ToLowerCase(MyFont) \o otf
  /\ InitRest

SessionNext ==
  \/ Startup
  \/ Connect
  \/ \E c \in Conns : Deliver(c)
  \/ \E n \in ChatFeed : Len(upstream) < MaxMsgs /\ Message(n)
  \/ GetFont

SessionSpec == SessionInit /\ [][SessionNext]_vars

\* the relay on a feed with other channels and with echoes
EchoNext ==
  \/ Startup
  \/ Connect
  \/ \E c \in Conns : Deliver(c)
  \/ \E n \in EchoFeed : Len(upstream) < MaxMsgs /\ Message(n)

EchoSpec == Init /\ [][EchoNext]_vars

\* the normaliser: the handler applied to one notification
NormNext ==
  \/ Startup
  \/ \E n \in Notifications : upstream = <<>> /\ Message(n)

NormSpec == Init /\ [][NormNext]_vars

\* the startup: any command line, any fonts directory
StartInit ==
  /\ argv \in UNION {CommandLines(f, n) :
                       f \in FontOptions, n \in FontOptions \cup NamefontOptions}
  /\ fontsDirExists \in BOOLEAN
  /\ dirEntries \in {d \in SUBSET FileUniverse : Cardinality(d) <= MaxFiles}
  /\ (~fontsDirExists => dirEntries = {})
  /\ request = <<>>
  /\ InitRest

StartNext == Startup

StartSpec == StartInit /\ [][StartNext]_vars

\* the fonts: any fonts directory, any font options, any request
FontInit ==
  /\ argv \in {Argv(f, n) : f \in FontOptions, n \in NamefontOptions}
  /\ fontsDirExists \in BOOLEAN
  /\ dirEntries \in {d \in SUBSET FileUniverse : Cardinality(d) <= MaxFiles}
  /\ (~fontsDirExists => dirEntries = {})
  /\ request \in RequestNames
  /\ InitRest

FontNext ==
  \/ Startup
  \/ GetFont

FontSpec == FontInit /\ [][FontNext]_vars

(***************************************************************************)
(* Properties of the broadcast channel.                                    *)
(***************************************************************************)
\* everything the server has emitted to connection c, in order
Emitted(c) == recv[c] \o wire[c]

\* the data of the chatMessage events of a sequence of events
ChatOf(events) ==
  LET chat == SelectSeq(events, LAMBDA p : p.event = "chatMessage")
  IN [i \in 1..Len(chat) |-> chat[i].data]

\* C1: on every connection the server emits exactly one settings event and it
\* is the first event of the connection: the events emitted to an open socket
\* start with the one settings event, and what a client has received on a
\* connection, open or closed, is empty or starts with the one settings event,
\* so no chatMessage is ever received before it, whatever the interleaving of
\* connections and notifications.
C1_SettingsOnceAndFirst ==
  \A c \in Conns :
    /\ (c \in sockets => Emitted(c) # <<>>)
    /\ (c > opened => Emitted(c) = <<>>)
    /\ \A i \in 1..Len(Emitted(c)) :
         (Emitted(c)[i].event = "settings") <=> (i = 1)

\* a client that connected after a publish has received its settings, and an
\* earlier client has received settings and then a chatMessage
C1_Witness ==
  \E c, d \in Conns :
    /\ c # d
    /\ Len(recv[c]) >= 2 /\ recv[c][2].event = "chatMessage"
    /\ joined[d] > 0 /\ Len(recv[d]) >= 1

\* C2: every socket that is open has been sent every event published since it
\* connected, with the very data that was published, so any two open sockets
\* were sent identical events for a notification handled while both were open.
C2_FanOutIdentical ==
  \A c \in sockets :
    /\ Len(ChatOf(Emitted(c))) = Len(published) - joined[c]
    /\ \A k \in (joined[c] + 1)..Len(published) :
         ChatOf(Emitted(c))[k - joined[c]] = published[k]

\* two sockets are open and an event was published after both connected
C2_Witness ==
  \E c, d \in sockets :
    /\ c # d
    /\ joined[c] < Len(published)
    /\ joined[d] < Len(published)
    /\ ChatOf(Emitted(c))[Len(published) - joined[c]]
         = ChatOf(Emitted(d))[Len(published) - joined[d]]

\* C3: the chatMessage events a client has received are, in order and without
\* a gap, the events of the notifications handled since it connected: the
\* event of a later notification is never received before that of an earlier.
C3_ReceivedInUpstreamOrder ==
  \A c \in Conns :
    \A i \in 1..Len(ChatOf(recv[c])) :
      /\ joined[c] + i <= Len(upstream)
      /\ ChatOf(recv[c])[i] = ChatEvent(upstream[joined[c] + i].tags,
                                        upstream[joined[c] + i].message)

\* a client has received the events of two different notifications
C3_Witness ==
  \E c \in Conns :
    /\ Len(ChatOf(recv[c])) >= 2
    /\ ChatOf(recv[c])[1] # ChatOf(recv[c])[2]

\* C4: after n notifications exactly n events have been published, the k-th
\* one for the k-th notification, also when notifications repeat.
C4_OnePublishPerNotification ==
  /\ Len(published) = Len(upstream)
  /\ \A k \in 1..Len(upstream) :
       published[k] = ChatEvent(upstream[k].tags, upstream[k].message)

\* two identical notifications in a row were both published
C4_Witness ==
  /\ Len(upstream) >= 2
  /\ upstream[1] = upstream[2]
  /\ Len(published) >= 2
  /\ published[1] = published[2]

\* C13: missed events are never replayed.  A connection that opens is sent
\* the settings and nothing that was published before; a connection that is
\* closed, or not yet open, is sent nothing and receives nothing, whatever is
\* published meanwhile; an open connection is sent, in one step, at most the
\* event published in that step.  A client that reconnects is a new
\* connection, so it too gets only the settings and what is published later.
C13_NoReplay ==
  [][\A c \in Conns :
       /\ (c \notin sockets /\ c \in sockets')
            => Emitted(c)' = <<Packet("settings", Settings)>>
       /\ (c \notin sockets')
            => recv'[c] = recv[c]
       /\ (c \notin sockets /\ c \notin sockets')
            => wire'[c] = wire[c]
       /\ (c \in sockets /\ c \in sockets')
            => \/ Emitted(c)' = Emitted(c)
               \/ /\ Len(published') = Len(published) + 1
                  /\ Emitted(c)' =
                       Append(Emitted(c),
                              Packet("chatMessage",
                                     published'[Len(published')]))]_vars

\* a first connection closed, an event was published, a second connection
\* opened and has received the settings and the one event published after:
\* the first never got either event, the second never got the earlier one
C13_Witness ==
  /\ opened = 2
  /\ sockets = {2}
  /\ Len(published) = 2
  /\ joined[1] = 0
  /\ joined[2] = 1
  /\ ChatOf(recv[1]) = <<>>
  /\ recv[2] = <<Packet("settings", Settings),
                  Packet("chatMessage", published[2])>>

\* the data of the settings events emitted to connection c
SettingsOf(c) ==
  LET evs == SelectSeq(Emitted(c), LAMBDA p : p.event = "settings")
  IN {evs[i].data : i \in 1..Len(evs)}

\* C16: the session configuration does not change after the startup.  Every
\* settings event of a run, on any connection, carries the four values the
\* startup check left: the height and the seconds of the command line and the
\* two validated fonts; so all settings events of a run are equal, whatever
\* notifications, font requests and connections came in between.
C16_SettingsFrozen ==
  \A c \in Conns :
    \A data \in SettingsOf(c) :
      data = [viewportHeight |-> argv.height,
              messageSeconds |-> argv.seconds,
              messageFont |-> argv.font,
              namefont |-> argv.namefont]

\* one connection opened before and one after a notification, the font
\* request was answered, and both received the same settings, with the
\* fall-back namefont
C16_Witness ==
  /\ opened = 2
  /\ joined[1] = 0
  /\ joined[2] >= 1
  /\ response.status = 200
  /\ recv[1] # <<>>
  /\ recv[2] # <<>>
  /\ recv[1][1].event = "settings"
  /\ recv[1][1].data.messageFont = MyFont
  /\ recv[1][1].data.namefont = Arial
  /\ recv[2][1] = recv[1][1]

\* C17: handling a new connection changes nothing for the connections that
\* are already open: in the step that accepts a connection nothing is
\* emitted to, and nothing is received by, any other connection, so no client
\* gets a second settings event because another client connected.
C17_SettingsToNewOnly ==
  [][(opened' = opened + 1)
       => \A c \in Conns \ {opened'} :
            /\ wire'[c] = wire[c]
            /\ recv'[c] = recv[c]]_vars

\* a client connected while another, with a chatMessage still on its wire,
\* was connected: the first was sent one settings event, the second its own
C17_Witness ==
  /\ sockets = {1, 2}
  /\ joined[2] = 1
  /\ Len(published) = 1
  /\ wire[2] = <<Packet("settings", Settings)>>
  /\ Emitted(1) = <<Packet("settings", Settings),
                     Packet("chatMessage", published[1])>>

\* C20: the channel name and the echo flag of a notification have no effect.
\* Every notification is relayed, an echo too, and two notifications with
\* the same text and the same tags get equal events, whatever their channels
\* and echo flags; so the event depends only on the text and the tags.
C20_ChannelAndEchoIgnored ==
  /\ Len(published) = Len(upstream)
  /\ \A i, j \in 1..Len(upstream) :
       (upstream[i].tags = upstream[j].tags
          /\ upstream[i].message = upstream[j].message)
         => published[i] = published[j]

\* an echo on another channel and a plain notification with the same text
\* were both relayed, with equal events, and a client received both
C20_Witness ==
  /\ Len(upstream) = 2
  /\ upstream[1].message = upstream[2].message
  /\ upstream[1].chan # upstream[2].chan
  /\ upstream[1].self /\ ~upstream[2].self
  /\ Len(published) = 2
  /\ published[1] = published[2]
  /\ \E c \in Conns : ChatOf(recv[c]) = published

\* the events of the notifications of ns on which the handler does not throw
RECURSIVE EventsOfWellFormed(_)
EventsOfWellFormed(ns) ==
  IF ns = <<>> THEN <<>>
  ELSE IF Throws(Head(ns).tags) THEN EventsOfWellFormed(Tail(ns))
       ELSE <<ChatEvent(Head(ns).tags, Head(ns).message)>>
              \o EventsOfWellFormed(Tail(ns))

\* C11, as claimed: no notification ends the process.  A notification whose
\* normalisation fails is dropped and nothing else: the process keeps
\* listening, the open connections stay open, and the events published are
\* those of all the well-formed notifications raised so far, the ones after
\* the failed one included.
C11_AsClaimed ==
  /\ pc \in {"check", "exit", "listening"}
  /\ published = EventsOfWellFormed(upstream)
  /\ (pc = "listening" => sockets = 1..opened)

(***************************************************************************)
(* Properties of the normaliser.                                           *)
(***************************************************************************)
\* the tag is in the tag set
HasTag(x) == x.t # "undefined"

\* the tag has no text: tmi.js hands an empty tag over as null
IsEmptyTag(x) == x.t = "null" \/ x = Str("")

\* C9, as claimed: message is the inbound text, username is the display-name
\* tag whenever the tag is present and "Anonymous" when it is absent, color is
\* the color tag when present and non-empty and "#ffffff" otherwise.
C9_AsClaimed ==
  \A k \in 1..Len(published) :
    LET tags == upstream[k].tags
        e == published[k]
    IN /\ e.message = Str(upstream[k].message)
       /\ e.username = IF HasTag(tags["display-name"])
                       THEN tags["display-name"] ELSE Str("Anonymous")
       /\ e.color = IF HasTag(tags["color"]) /\ ~IsEmptyTag(tags["color"])
                    THEN tags["color"] ELSE Str("#ffffff")

\* C9, amended: message is the inbound text; username is the display-name tag
\* when it is present and non-empty and "Anonymous" when it is absent or
\* empty; color is the color tag when it is present and non-empty and
\* "#ffffff" when it is absent or empty.
C9_Fallbacks ==
  \A k \in 1..Len(published) :
    LET tags == upstream[k].tags
        e == published[k]
    IN /\ e.message = Str(upstream[k].message)
       /\ e.username = IF HasTag(tags["display-name"])
                          /\ ~IsEmptyTag(tags["display-name"])
                       THEN tags["display-name"] ELSE Str("Anonymous")
       /\ e.color = IF HasTag(tags["color"]) /\ ~IsEmptyTag(tags["color"])
                    THEN tags["color"] ELSE Str("#ffffff")

\* an event was published for a notification whose display-name is present
\* and empty and whose color is present
C9_Witness ==
  \E k \in 1..Len(published) :
    /\ upstream[k].tags["display-name"] = Str("")
    /\ upstream[k].tags["color"] = Str("#ff0000")
    /\ published[k].username = Str("Anonymous")
    /\ published[k].color = Str("#ff0000")

\* the properties of the emotes object of a notification
EmoteProps(n) ==
  IF Truthy(n.tags["emotes"]) THEN n.tags["emotes"].v ELSE <<>>

\* the place of an id in the insertion order of props
InsertedAt(props, id) == CHOOSE k \in 1..Len(props) : props[k].id = id

\* every id's spans are there, in the order of its tokens, and nothing else
SpansPerId(props, em) ==
  /\ \A k \in 1..Len(props) :
       SelectSeq(em, LAMBDA sp : sp.id = props[k].id) = SpansOf(props[k])
  /\ \A i \in 1..Len(em) : \E k \in 1..Len(props) : props[k].id = em[i].id

\* C10, as claimed: the ids appear in the order they were inserted in the
\* map, each id's spans in the order of its tokens.
C10_AsClaimed ==
  \A k \in 1..Len(published) :
    LET props == EmoteProps(upstream[k])
        em == published[k].emotes
    IN /\ SpansPerId(props, em)
       /\ \A i, j \in 1..Len(em) :
            (i < j /\ em[i].id # em[j].id) =>
              InsertedAt(props, em[i].id) < InsertedAt(props, em[j].id)

\* C10, amended: the ids appear in the order a for-in loop visits the map:
\* the ids that are canonical non-negative integers first, in ascending
\* numeric order, then the other ids in the order they were inserted; each
\* id's spans follow the order of its tokens; nothing is sorted by position
\* and nothing is dropped.
C10_ForInOrder ==
  \A k \in 1..Len(published) :
    LET props == EmoteProps(upstream[k])
        em == published[k].emotes
    IN /\ SpansPerId(props, em)
       /\ \A i, j \in 1..Len(em) :
            (i < j /\ em[i].id # em[j].id) =>
              CASE IsArrayIndex(em[i].id) /\ IsArrayIndex(em[j].id) ->
                     DecimalValue(em[i].id) < DecimalValue(em[j].id)
                [] IsArrayIndex(em[i].id) -> TRUE
                [] IsArrayIndex(em[j].id) -> FALSE
                [] OTHER -> InsertedAt(props, em[i].id)
                              < InsertedAt(props, em[j].id)

\* an event was published for an emote map with the ids "1902" then "25":
\* its spans list "25" first
C10_Witness ==
  \E k \in 1..Len(published) :
    LET props == EmoteProps(upstream[k])
        em == published[k].emotes
    IN /\ Len(props) = 2
       /\ props[1].id = <<"1", "9", "0", "2">>
       /\ props[2].id = <<"2", "5">>
       /\ Len(props[1].positions) = 2
       /\ Len(em) = 3
       /\ em[1].id = <<"2", "5">>
       /\ em[2] = [id |-> props[1].id, start |-> Num(0), end |-> Num(4)]
       /\ em[3] = [id |-> props[1].id, start |-> Num(10), end |-> Num(14)]

Hyphen == "-"

\* the index of the first hyphen of a token, 0 when it has none
FirstHyphen(tok) ==
  IF \E i \in 1..Len(tok) : tok[i] = Hyphen
  THEN CHOOSE i \in 1..Len(tok) :
         tok[i] = Hyphen /\ \A j \in 1..(i - 1) : tok[j] # Hyphen
  ELSE 0

\* the start field of a token: what stands before its first hyphen
StartField(tok) ==
  IF FirstHyphen(tok) = 0 THEN tok ELSE SubSeq(tok, 1, FirstHyphen(tok) - 1)

HasEndField(tok) == FirstHyphen(tok) # 0

\* the end field of a token: what stands between its first hyphen and its
\* second hyphen or its end
EndField(tok) ==
  LET rest == SubSeq(tok, FirstHyphen(tok) + 1, Len(tok))
  IN StartField(rest)

IsDigitString(f) == f # <<>> /\ AllDigits(f)

\* a token "<start>-<end>" of two digit strings
IsWellFormed(tok) ==
  /\ HasEndField(tok)
  /\ IsDigitString(StartField(tok))
  /\ IsDigitString(SubSeq(tok, FirstHyphen(tok) + 1, Len(tok)))

RECURSIVE TokenCount(_)
TokenCount(props) ==
  IF props = <<>> THEN 0
  ELSE Len(Head(props).positions) + TokenCount(Tail(props))

\* the spans of the id of property p among the spans em
SpansWithId(em, p) == SelectSeq(em, LAMBDA sp : sp.id = p.id)

\* C14: for an emote map whose tokens are all "<start>-<end>" digit strings,
\* the event carries exactly one span per token, an id with k tokens having k
\* spans in the order of its tokens, each span with its id and the integers
\* its token spells; with no emote map (undefined or null) the event carries
\* no span.  {"25": ["0-4", "10-14"]} gives (25,0,4) then (25,10,14).
C14_OneSpanPerToken ==
  \A k \in 1..Len(published) :
    LET props == EmoteProps(upstream[k])
        em == published[k].emotes
    IN /\ (~Truthy(upstream[k].tags["emotes"]) => em = <<>>)
       /\ (\A p \in 1..Len(props) : \A i \in 1..Len(props[p].positions) :
             IsWellFormed(props[p].positions[i]))
            => /\ Len(em) = TokenCount(props)
               /\ \A p \in 1..Len(props) :
                    SpansWithId(em, props[p]) =
                      [i \in 1..Len(props[p].positions) |->
                         [id |-> props[p].id,
                          start |-> Num(DecimalValue(
                                      StartField(props[p].positions[i]))),
                          end |-> Num(DecimalValue(
                                    EndField(props[p].positions[i])))]]

\* the event for {"25": ["0-4", "10-14"]} was published with (25,0,4) and
\* (25,10,14)
C14_Witness ==
  \E k \in 1..Len(published) :
    /\ upstream[k].tags["emotes"] =
         Obj(<<Emote(<<"2", "5">>,
                     <<<<"0", "-", "4">>, <<"1", "0", "-", "1", "4">>>>)>>)
    /\ published[k].emotes =
         <<[id |-> <<"2", "5">>, start |-> Num(0), end |-> Num(4)],
           [id |-> <<"2", "5">>, start |-> Num(10), end |-> Num(14)]>>

\* every notification is published with one span per token, in token order
OneSpanPerToken(k) ==
  /\ k <= Len(published)
  /\ \A p \in 1..Len(EmoteProps(upstream[k])) :
       Len(SpansWithId(published[k].emotes, EmoteProps(upstream[k])[p]))
         = Len(EmoteProps(upstream[k])[p].positions)

\* C15, as claimed: a token with a start or end field that is not a digit
\* string, an empty field and the field a token with no hyphen lacks
\* included, does not stop the handler: the event is published with a span
\* for the token, and each such field is NaN in it, never an integer.
C15_AsClaimed ==
  \A k \in 1..Len(upstream) :
    /\ OneSpanPerToken(k)
    /\ \A p \in 1..Len(EmoteProps(upstream[k])) :
         LET prop == EmoteProps(upstream[k])[p]
             spans == SpansWithId(published[k].emotes, prop)
         IN \A i \in 1..Len(prop.positions) :
              LET tok == prop.positions[i]
              IN /\ ~IsDigitString(StartField(tok))
                      => spans[i].start = JsNaN
                 /\ (~HasEndField(tok) \/ ~IsDigitString(EndField(tok)))
                      => spans[i].end = JsNaN

\* C15, amended: such a token does not stop the handler and the event is
\* published with a span for it, but only a field that is not empty and is
\* not a number (such as "a") is NaN in the span.  An empty field is the
\* integer 0, as Number("") is 0, and the end of a token with no hyphen is
\* undefined, not NaN.  A digit field is its value also beside a malformed
\* one, and fields after a second hyphen are ignored.
C15_NumberOfEachField ==
  \A k \in 1..Len(upstream) :
    /\ OneSpanPerToken(k)
    /\ \A p \in 1..Len(EmoteProps(upstream[k])) :
         LET prop == EmoteProps(upstream[k])[p]
             spans == SpansWithId(published[k].emotes, prop)
             Value(f) == IF f = <<>> THEN Num(0)
                         ELSE IF AllDigits(f) THEN Num(DecimalValue(f))
                         ELSE JsNaN
         IN \A i \in 1..Len(prop.positions) :
              LET tok == prop.positions[i]
              IN /\ spans[i].id = prop.id
                 /\ spans[i].start = Value(StartField(tok))
                 /\ spans[i].end = IF HasEndField(tok)
                                   THEN Value(EndField(tok)) ELSE Undefined

\* the event for {"25": ["0-4", ""]} was published: the empty token gave the
\* span (25, 0, undefined)
C15_Witness ==
  \E k \in 1..Len(published) :
    /\ upstream[k].tags["emotes"] =
         Obj(<<Emote(<<"2", "5">>, <<<<"0", "-", "4">>, <<>>>>)>>)
    /\ published[k].emotes =
         <<[id |-> <<"2", "5">>, start |-> Num(0), end |-> Num(4)],
           [id |-> <<"2", "5">>, start |-> Num(0), end |-> Undefined]>>

(***************************************************************************)
(* Properties of the fonts.                                                *)
(***************************************************************************)
Answered == response.status # 0

NoSlash(name) == \A i \in 1..Len(name) : name[i] # Slash

\* a name with no directory part and no supported extension, in any case
IsBaseName(name) ==
  /\ name # <<>>
  /\ NoSlash(name)
  /\ \A i \in 1..Len(extensions) : ~EndsWith(ToLowerCase(name), extensions[i])

\* the entries of fonts/ that equal name + e without regard to case
Hits(name, e) ==
  {f \in dirEntries : fontsDirExists /\ ToLowerCase(f) = ToLowerCase(name \o e)}

\* the entries for the first extension, in priority order, that has one
FirstHits(name) ==
  LET found == {i \in 1..Len(extensions) : Hits(name, extensions[i]) # {}}
  IN IF found = {} THEN {}
     ELSE Hits(name, extensions[CHOOSE i \in found : \A j \in found : i <= j])

\* the response is the one for the base name `name`: not-found when no entry
\* matches, else one of the entries of the first extension that matches
AnsweredFor(name) ==
  IF FirstHits(name) = {}
  THEN response.status = 404
  ELSE /\ response.status = 200
       /\ \E f \in FirstHits(name) : response.file = <<Fonts, f>>

\* the request carries the extension e, on a non-empty name
Carries(name, e) == Len(name) > Len(e) /\ EndsWith(name, e)

WithoutExt(name, e) == SubSeq(name, 1, Len(name) - Len(e))

\* C5, as claimed: /fonts/MyFont.ttf with only myfont.otf in the directory is
\* not-found, and a request that carries a supported extension is never
\* answered with a file of another extension.
C5_AsClaimed ==
  Answered =>
    /\ (request = MyFont \o ttf /\ fontsDirExists
          /\ dirEntries = {ToLowerCase(MyFont) \o otf})
         => response.status = 404
    /\ \A i \in 1..Len(extensions) :
         (NoSlash(request) /\ Carries(request, extensions[i])
            /\ response.status = 200)
           => EndsWith(ToLowerCase(response.file[Len(response.file)]),
                       extensions[i])

\* C5, amended: /fonts/MyFont.ttf with only myfont.otf in the directory is
\* answered with myfont.otf.  A request that carries a supported lower-case
\* extension is answered as its name without the extension is: with an entry
\* that equals, without regard to case, that name plus the first supported
\* extension in priority order that has an entry, whichever extension was
\* requested, and with not-found only when no supported extension has one.
C5_ExtensionAgnostic ==
  Answered =>
    /\ (request = MyFont \o ttf /\ fontsDirExists
          /\ dirEntries = {ToLowerCase(MyFont) \o otf})
         => /\ response.status = 200
            /\ response.file = <<Fonts, ToLowerCase(MyFont) \o otf>>
    /\ \A i \in 1..Len(extensions) :
         (NoSlash(request) /\ Carries(request, extensions[i]))
           => AnsweredFor(WithoutExt(request, extensions[i]))

\* /fonts/MyFont.ttf was answered with myfont.otf
C5_Witness ==
  /\ request = MyFont \o ttf
  /\ dirEntries = {ToLowerCase(MyFont) \o otf}
  /\ response.status = 200
  /\ response.file = <<Fonts, ToLowerCase(MyFont) \o otf>>
  /\ response.type = "font/otf"

IsArial(name) == ToLowerCase(name) = ToLowerCase(Arial)

\* C6, as claimed: a name that is "arial" in any case always resolves, in the
\* startup validation and in a request to the asset endpoint.
C6_AsClaimed ==
  /\ (pc = "check" =>
        \A font \in {argv.font, argv.namefont} :
          IsArial(font) => validateFont(font))
  /\ (Answered /\ IsArial(request) => response.status = 200)

\* C6, amended: the startup validation of a name that is "arial" in any case
\* always succeeds, for every content of the fonts directory, a missing or
\* empty one included, and the name is kept as it was given.  The asset
\* endpoint has no such rule: a request for that name is resolved on disk as
\* any other name is, and is not-found unless the directory holds a file
\* arial.ttf, arial.otf, arial.woff or arial.woff2, in any case.
C6_ArialAtStartupOnly ==
  /\ [][(pc = "check" /\ IsArial(argv.font))
          => (fontValid' /\ argv'.font = argv.font)]_vars
  /\ [][(pc = "check" /\ IsArial(argv.namefont))
          => (namefontValid' /\ argv'.namefont = argv.namefont)]_vars
  /\ []((Answered /\ IsArial(request)) => AnsweredFor(request))

\* started with --font arial and no fonts directory: the validation passed
\* and kept the name, and the request for /fonts/Arial was not-found
C6_Witness ==
  /\ pc = "listening"
  /\ ~fontsDirExists
  /\ fontValid
  /\ messageFont = ToLowerCase(Arial)
  /\ request = Arial
  /\ response.status = 404

\* fonts/ holds a file name + ext, without regard to case, for a supported ext
HasFontFile(name) == \E i \in 1..Len(extensions) : Hits(name, extensions[i]) # {}

\* the font the session is configured with when `font` was asked for
Configured(font) == IF IsArial(font) \/ HasFontFile(font) THEN font ELSE Arial

\* C12: a font that is not found never aborts the startup.  Whenever the
\* check runs on a port, username, height and seconds in range, the process
\* starts, whatever the two font names and the content of fonts/ are, and
\* messageFont and namefont are each the name asked for when fonts/ holds a
\* font file of that name or the name is arial, and "Arial" otherwise.
C12_FontFallback ==
  [][(pc = "check" /\ errors(argv) = {})
       => /\ pc' = "listening"
          /\ messageFont' = Configured(argv.font)
          /\ namefont' = Configured(argv.namefont)]_vars

\* started with a font that was not found and a namefont that was: the
\* session has Arial and the namefont as it was given
C12_Witness ==
  /\ pc = "listening"
  /\ dirEntries = {ToLowerCase(MyFont) \o otf}
  /\ ~fontValid
  /\ messageFont = Arial
  /\ namefontValid
  /\ namefont = MyFont

\* C7: for a requested base name, the endpoint finds a file exactly when an
\* entry of the directory equals name + ext without regard to case for a
\* supported ext, and then serves an entry of the first such ext in the order
\* .ttf, .otf, .woff, .woff2; with a missing or an empty directory it is
\* not-found.
C7_ResolveByPriority ==
  (Answered /\ IsBaseName(request)) =>
    /\ AnsweredFor(request)
    /\ (~fontsDirExists \/ dirEntries = {}) => response.status = 404

\* the request for Comic-Sans was answered with the entry comic-sans.woff2
C7_Witness ==
  /\ request = ComicSans
  /\ ToLowerCase(ComicSans) \o woff2 \in dirEntries
  /\ response.status = 200
  /\ response.file = <<Fonts, ToLowerCase(ComicSans) \o woff2>>

\* C8, as claimed: a request for B + E, E a supported extension in any case,
\* gets what a request for the base name B gets.
C8_AsClaimed ==
  \A i \in 1..Len(extensions) :
    (/\ Answered
     /\ Carries(ToLowerCase(request), extensions[i])
     /\ IsBaseName(WithoutExt(request, extensions[i])))
      => \E fontPath \in FontPaths(WithoutExt(request, extensions[i])) :
           response = Respond(fontPath)

\* C18, as claimed: the startup validation and the asset endpoint agree.
\* When the session has a font name that is not Arial, in any case, a request
\* for /fonts/<that name> against the same fonts directory is answered with
\* a file, never with not-found, also for a name that ends in a supported
\* extension and for files with an upper-case extension.
C18_AsClaimed ==
  (/\ pc = "listening"
   /\ Answered
   /\ request \in {messageFont, namefont}
   /\ ~IsArial(request))
    => response.status = 200

\* C19, as claimed: a file the asset endpoint serves is an entry of the fonts
\* directory, whatever name was requested, names with a path separator or a
\* ".." segment included.
C19_AsClaimed ==
  response.status = 200 =>
    /\ Len(response.file) = 2
    /\ response.file[1] = Fonts
    /\ response.file[2] \in dirEntries

=============================================================================
